---- MODULE Spec2Model ----
(***************************************************************************)
(* Model of src/lehrer/main.py: the Lehrer Dagger module.                  *)
(*                                                                         *)
(* A dagger.Container is an immutable value: every with_* call returns a   *)
(* new container.  It is modelled as a record holding the list of the      *)
(* operations applied so far (steps) and what they add up to (env, mounts, *)
(* user, workdir).  The engine that runs the commands is outside the       *)
(* repository: an exec either yields the next container or raises an       *)
(* execution error, and which commands exit non-zero is chosen by the      *)
(* environment (the variable failing).  Only commands fail: from_, the     *)
(* mounts and the settings of env, user and workdir always yield the next  *)
(* container.  A file or directory taken from a container is a handle that *)
(* names the image and the path.                                           *)
(***************************************************************************)
EXTENDS Integers, Sequences, FiniteSets, TLC

VARIABLES
    failing,        \* environment: the commands (argv) that exit non-zero
    pc,             \* position of the build_platform invocation
    args,           \* arguments of the build_platform invocation
    container,      \* build_platform's local variable container
    tutor_bin,      \* build_platform's local variable tutor_bin
    dockerize_bin,  \* build_platform's local variable dockerize_bin
    trace,          \* history: the names of the stages build_platform has called
    last,           \* history: the last stage call (name, input, outcome)
    call,           \* the last direct call of a function of the module
    heap,           \* the container objects a caller holds, by handle
    runs            \* concurrent invocations: the local state of each

vars == <<failing, pc, args, container, tutor_bin, dockerize_bin, trace, last, call, heap, runs>>

(***************************************************************************)
(* Values                                                                  *)
(***************************************************************************)
\* Python's None, for the optional str / Directory parameters.
None == "<None>"

\* Python truthiness of an optional str or Directory argument.
Truthy(v) == v # None /\ v # ""

\* The user of a container no with_user has been applied to.
RootUser == "root"

IsRoot(u) == u = RootUser \/ u = "0"

\* dag.container(): the empty container.
DagContainer ==
    [steps |-> <<>>, env |-> {}, mounts |-> {}, user |-> RootUser, workdir |-> "/"]

(***************************************************************************)
(* Operations of the container API                                         *)
(***************************************************************************)
Op(kind, a) == [kind |-> kind, args |-> a]

From(ref) == Op("from", <<ref>>)
WithExec(argv) == Op("exec", argv)
WithEnvVariable(name, value) == Op("env", <<name, value>>)
WithFile(path, file) == Op("file", <<path, file>>)
WithDirectory(path, dir) == Op("directory", <<path, dir>>)
WithMountedDirectory(path, dir) == Op("mounted_directory", <<path, dir>>)
WithMountedFile(path, file) == Op("mounted_file", <<path, file>>)
WithUser(name) == Op("user", <<name>>)
WithWorkdir(path) == Op("workdir", <<path>>)
WithEntrypoint(argv) == Op("entrypoint", argv)
WithExposedPort(port) == Op("exposed_port", <<ToString(port)>>)

\* Last write wins: a pair replaces the pair with the same first component.
Put(pairs, k, v) == {p \in pairs : p[1] # k} \cup {<<k, v>>}

\* The container an operation yields.
Apply(c, op) ==
    LET s == Append(c.steps, op) IN
    CASE op.kind = "env" ->
            [c EXCEPT !.steps = s, !.env = Put(c.env, op.args[1], op.args[2])]
      [] op.kind \in {"mounted_directory", "mounted_file", "directory", "file"} ->
            [c EXCEPT !.steps = s, !.mounts = Put(c.mounts, op.args[1], op.args[2])]
      [] op.kind = "user" -> [c EXCEPT !.steps = s, !.user = op.args[1]]
      [] op.kind = "workdir" -> [c EXCEPT !.steps = s, !.workdir = op.args[1]]
      [] OTHER -> [c EXCEPT !.steps = s]

(***************************************************************************)
(* Exit status of a command                                                *)
(***************************************************************************)
OrTrue == " || true"

EndsWith(s, suffix) ==
    Len(s) >= Len(suffix) /\ SubSeq(s, Len(s) - Len(suffix) + 1, Len(s)) = suffix

StartsWith(s, prefix) ==
    Len(s) >= Len(prefix) /\ SubSeq(s, 1, Len(prefix)) = prefix

IsSh(argv) == Len(argv) = 3 /\ argv[1] = "sh" /\ argv[2] = "-c"

Sh(script) == <<"sh", "-c", script>>

\* sh -c "X || true" exits 0 whatever X does; any other command exits
\* non-zero when the environment makes it fail.
ExecFails(argv) ==
    IF IsSh(argv) /\ EndsWith(argv[3], OrTrue) THEN FALSE ELSE argv \in failing

OpFails(op) == op.kind = "exec" /\ ExecFails(op.args)

(***************************************************************************)
(* Outcome of a function: the container it returns (err = "none"), or the  *)
(* error it raises with the value its local variable container had then.   *)
(***************************************************************************)
Ok(c) == [err |-> "none", c |-> c]
ExecutionError(c) == [err |-> "exec", c |-> c]
ValueError(c) == [err |-> "config", c |-> c]

\* container.with_a(...).with_b(...): the operations in order, up to the
\* first that fails.
RECURSIVE Chain(_, _)
Chain(c, ops) ==
    IF ops = <<>> THEN Ok(c)
    ELSE IF OpFails(Head(ops)) THEN ExecutionError(c)
    ELSE Chain(Apply(c, Head(ops)), Tail(ops))

\* The statements that follow a statement that may have raised.
Then(r, ops) == IF r.err # "none" THEN r ELSE Chain(r.c, ops)

(***************************************************************************)
(* Files and directories handed from one container to another              *)
(***************************************************************************)
\* The image a container was instantiated from.
ImageOf(c) == IF c.steps # <<>> /\ c.steps[1].kind = "from" THEN c.steps[1].args[1] ELSE ""

\* container.file(path) and container.directory(path): a handle that names
\* the container and the path inside it.
FileOf(c, path) == "file(" \o ImageOf(c) \o ":" \o path \o ")"
DirectoryOf(c, path) == "directory(" \o ImageOf(c) \o ":" \o path \o ")"

(***************************************************************************)
(* The stage functions                                                     *)
(***************************************************************************)
apt_packages ==
    <<"curl", "default-libmysqlclient-dev", "gettext", "gfortran", "git", "graphviz",
      "libffi-dev", "libfreetype-dev", "libgeos-dev", "libgraphviz-dev", "libjpeg-dev",
      "liblapack-dev", "libpng-dev", "libsqlite3-dev", "libxml2-dev", "libxmlsec1-dev",
      "libxmlsec1-openssl", "lynx", "pkg-config", "rdfind">>

uv_binary == FileOf(Apply(DagContainer, From("ghcr.io/astral-sh/uv:latest")), "/uv")

\* Mutant: the base image ends by switching to an application user.
apt_base_as_app(python_version) ==
    Chain(DagContainer,
      << From("python:" \o python_version \o "-bookworm"),
         WithEnvVariable("PATH", "/openedx/venv/bin:/usr/local/bin:/usr/bin:/bin"),
         WithExec(<<"apt", "update">>),
         WithExec(<<"apt", "install", "-y", "--no-install-recommends">> \o apt_packages),
         WithUser("app") >>)

apt_base(python_version) ==
    Chain(DagContainer,
      << From("python:" \o python_version \o "-bookworm"),
         WithEnvVariable("DEBIAN_FRONTEND", "noninteractive"),
         WithFile("/usr/local/bin/uv", uv_binary),
         WithEnvVariable("UV_NO_MANAGED_PYTHON", "1"),
         WithEnvVariable("UV_PYTHON_DOWNLOADS", "never"),
         WithEnvVariable("UV_COMPILE_BYTECODE", "1"),
         WithEnvVariable("UV_LINK_MODE", "copy"),
         WithEnvVariable("UV_PROJECT_ENVIRONMENT", "/openedx/venv"),
         WithEnvVariable("VIRTUAL_ENV", "/openedx/venv"),
         WithEnvVariable("PATH", "/openedx/venv/bin:/usr/local/bin:/usr/bin:/bin"),
         WithExec(<<"apt", "update">>),
         WithExec(<<"apt", "install", "-y", "--no-install-recommends">> \o apt_packages),
         WithExec(<<"apt", "autoremove", "-y">>),
         WithExec(<<"apt", "clean">>),
         WithExec(<<"rm", "-rf", "/var/lib/apt/lists/*">>) >>)

GitClone(branch, repo, path) ==
    <<"git", "clone", "--depth", "1", "--branch", branch, repo, path>>

LocaleRepo == "https://github.com/openedx-unsupported/openedx-i18n.git"

LocalePath == "/openedx/locale"

\* The command of locales that moves the locale files, as written before
\* its "|| true".
LocaleMv == "mv /tmp/openedx-i18n/edx-platform/locale /openedx/locale/contrib"

\* Mutant: the locale files are moved without "|| true".
locales_mv_fatal(c, locale_version) ==
    Chain(c,
      << WithExec(GitClone(locale_version, LocaleRepo, "/tmp/openedx-i18n")),
         WithExec(<<"mkdir", "-p", "/openedx/locale/contrib">>),
         WithExec(Sh(LocaleMv)),
         WithExec(<<"rm", "-rf", "/tmp/openedx-i18n">>) >>)

locales(c, locale_version) ==
    Chain(c,
      << WithExec(GitClone(locale_version, LocaleRepo, "/tmp/openedx-i18n")),
         WithExec(<<"mkdir", "-p", "/openedx/locale/contrib">>),
         WithExec(Sh(LocaleMv \o " || true")),
         WithExec(<<"rm", "-rf", "/tmp/openedx-i18n">>) >>)

PlatformPath == "/openedx/edx-platform"

UvVenv == <<"uv", "venv", "/openedx/venv">>

\* Mutant: the virtual environment is created before the inputs are looked at.
get_code_venv_first(c, source, edx_platform_git_repo, edx_platform_git_branch) ==
    LET v == Chain(c, <<WithExec(UvVenv)>>) IN
    IF source # None
    THEN Then(v, <<WithMountedDirectory(PlatformPath, source)>>)
    ELSE IF Truthy(edx_platform_git_repo) /\ Truthy(edx_platform_git_branch)
    THEN Then(v, <<WithExec(GitClone(edx_platform_git_branch,
                                     edx_platform_git_repo, PlatformPath))>>)
    ELSE IF v.err # "none" THEN v ELSE ValueError(v.c)

\* Mutant: the repository is looked at before the local source.
get_code_remote_first(c, source, edx_platform_git_repo, edx_platform_git_branch) ==
    IF Truthy(edx_platform_git_repo) /\ Truthy(edx_platform_git_branch)
    THEN Then(Chain(c, <<WithExec(GitClone(edx_platform_git_branch,
                                            edx_platform_git_repo, PlatformPath))>>),
              <<WithExec(UvVenv)>>)
    ELSE IF source # None
    THEN Then(Chain(c, <<WithMountedDirectory(PlatformPath, source)>>),
              <<WithExec(UvVenv)>>)
    ELSE ValueError(c)

get_code(c, source, edx_platform_git_repo, edx_platform_git_branch) ==
    IF source # None
    THEN Then(Chain(c, <<WithMountedDirectory(PlatformPath, source)>>),
              <<WithExec(UvVenv)>>)
    ELSE IF Truthy(edx_platform_git_repo) /\ Truthy(edx_platform_git_branch)
    THEN Then(Chain(c, <<WithExec(GitClone(edx_platform_git_branch,
                                            edx_platform_git_repo, PlatformPath))>>),
              <<WithExec(UvVenv)>>)
    ELSE ValueError(c)

ThemePath(deployment_name) == "/openedx/themes/" \o deployment_name

\* Mutant: the local theme is mounted at the themes directory itself, not at
\* the path keyed by the deployment name.
themes_mounted_unkeyed(c, deployment_name, theme_source, theme_git_repo, theme_git_branch) ==
    IF theme_source # None
    THEN Chain(c, <<WithMountedDirectory("/openedx/themes", theme_source)>>)
    ELSE IF ~Truthy(theme_git_repo) \/ ~Truthy(theme_git_branch)
    THEN ValueError(c)
    ELSE Chain(c, <<WithExec(GitClone(theme_git_branch, theme_git_repo,
                                      ThemePath(deployment_name)))>>)

\* Mutant: only the repository is checked, and the branch after the clone.
themes_branch_checked_late(c, deployment_name, theme_source, theme_git_repo, theme_git_branch) ==
    LET theme_path == ThemePath(deployment_name) IN
    IF theme_source # None
    THEN Chain(c, <<WithMountedDirectory(theme_path, theme_source)>>)
    ELSE IF ~Truthy(theme_git_repo)
    THEN ValueError(c)
    ELSE LET r == Chain(c, <<WithExec(GitClone(theme_git_branch, theme_git_repo,
                                               theme_path))>>) IN
         IF r.err = "none" /\ ~Truthy(theme_git_branch) THEN ValueError(r.c) ELSE r

themes(c, deployment_name, theme_source, theme_git_repo, theme_git_branch) ==
    LET theme_path == ThemePath(deployment_name) IN
    IF theme_source # None
    THEN Chain(c, <<WithMountedDirectory(theme_path, theme_source)>>)
    ELSE IF ~Truthy(theme_git_repo) \/ ~Truthy(theme_git_branch)
    THEN ValueError(c)
    ELSE Chain(c, <<WithExec(GitClone(theme_git_branch, theme_git_repo, theme_path))>>)

UvPipInstallBase(deployment_name, release_name) ==
    <<"uv", "pip", "install",
      "-r", "/root/pip_package_lists/edx_base.txt",
      "-r", "/root/pip_package_lists/edx_assets.txt",
      "-r", "/root/pip_package_lists/" \o release_name \o "/" \o deployment_name \o ".txt">>

UninstallNameAffirmation == <<"uv", "pip", "uninstall", "edx-name-affirmation">>

\* Mutant: edx-name-affirmation is uninstalled for every deployment.
install_deps_uninstall_always(c, deployment_name, release_name, pip_package_lists, pip_package_overrides, node_version) ==
    Chain(c,
      << WithMountedDirectory("/root/pip_package_lists", pip_package_lists),
         WithMountedDirectory("/root/pip_package_overrides", pip_package_overrides),
         WithExec(Sh("cp /openedx/edx-platform/requirements/edx/base.txt /root/pip_package_lists/edx_base.txt")),
         WithExec(Sh("cp /openedx/edx-platform/requirements/edx/assets.txt /root/pip_package_lists/edx_assets.txt")),
         WithExec(UvPipInstallBase(deployment_name, release_name)) >>
      \o <<WithExec(UninstallNameAffirmation)>>
      \o
      << WithExec(<<"pip", "uninstall", "--yes", "lxml", "xmlsec">>),
         WithExec(<<"pip", "install", "--no-cache-dir", "-r",
                    "/root/pip_package_overrides/" \o release_name \o "/"
                        \o deployment_name \o ".txt">>),
         WithWorkdir("/openedx/edx-platform"),
         WithEnvVariable("NPM_REGISTRY", "https://registry.npmjs.org/"),
         WithExec(Sh("nodeenv /openedx/nodeenv --node=" \o node_version \o " --prebuilt")),
         WithEnvVariable("PATH", "/openedx/venv/bin:/openedx/nodeenv/bin:/usr/local/bin:/usr/bin:/bin"),
         WithExec(Sh("npm clean-install -s --registry=https://registry.npmjs.org/")),
         WithExec(Sh("npm install 'git+https://git@github.com/verificient/edx-proctoring-proctortrack.git#f0fa9edbd16aa5af5a41ac309d2609e529ea8732'")) >>)

install_deps(c, deployment_name, release_name, pip_package_lists, pip_package_overrides, node_version) ==
    Chain(c,
      << WithMountedDirectory("/root/pip_package_lists", pip_package_lists),
         WithMountedDirectory("/root/pip_package_overrides", pip_package_overrides),
         WithExec(Sh("cp /openedx/edx-platform/requirements/edx/base.txt /root/pip_package_lists/edx_base.txt")),
         WithExec(Sh("cp /openedx/edx-platform/requirements/edx/assets.txt /root/pip_package_lists/edx_assets.txt")),
         WithExec(UvPipInstallBase(deployment_name, release_name)) >>
      \o (IF deployment_name = "mitxonline"
          THEN <<WithExec(UninstallNameAffirmation)>> ELSE <<>>)
      \o
      << WithExec(<<"pip", "uninstall", "--yes", "lxml", "xmlsec">>),
         WithExec(<<"pip", "install", "--no-cache-dir", "-r",
                    "/root/pip_package_overrides/" \o release_name \o "/"
                        \o deployment_name \o ".txt">>),
         WithWorkdir("/openedx/edx-platform"),
         WithEnvVariable("NPM_REGISTRY", "https://registry.npmjs.org/"),
         WithExec(Sh("nodeenv /openedx/nodeenv --node=" \o node_version \o " --prebuilt")),
         WithEnvVariable("PATH", "/openedx/venv/bin:/openedx/nodeenv/bin:/usr/local/bin:/usr/bin:/bin"),
         WithExec(Sh("npm clean-install -s --registry=https://registry.npmjs.org/")),
         WithExec(Sh("npm install 'git+https://git@github.com/verificient/edx-proctoring-proctortrack.git#f0fa9edbd16aa5af5a41ac309d2609e529ea8732'")) >>)

DockerizePath == "/usr/local/bin/dockerize"

\* The container whose file /usr/local/bin/dockerize the function returns.
dockerize ==
    Chain(DagContainer,
      <<From("docker.io/powerman/dockerize@sha256:f3ecfd5ac0f74eed3990782309ac6bf8b700f4eca0ea9e9ef507b11742c19cc6")>>)

TutorBinPath == "/openedx/tutor/tutor/templates/build/openedx/bin"

\* The container whose directory TutorBinPath the function returns.
tutor_utils(tutor_version) ==
    Chain(DagContainer,
      << From("debian:bookworm-slim"),
         WithExec(<<"apt-get", "update">>),
         WithExec(<<"apt-get", "install", "-y", "git">>),
         WithExec(GitClone(tutor_version, "https://github.com/overhangio/tutor.git",
                           "/openedx/tutor")) >>)

CollectedEarlyPath ==
    "/usr/sbin:/openedx/venv/bin:/openedx/nodeenv/bin:/usr/local/bin:/usr/bin:/bin"

AppUserPath ==
    "/openedx/venv/bin:/openedx/bin:/openedx/edx-platform/node_modules/.bin:/openedx/nodeenv/bin:/usr/local/bin:/usr/bin:/bin"

Useradd(app_user_id) ==
    <<"useradd", "--home-dir", "/openedx", "--create-home",
      "--shell", "/bin/bash", "--uid", ToString(app_user_id), "app">>

ChownOpenedx(app_user_id) ==
    <<"chown", "-R", ToString(app_user_id) \o ":" \o ToString(app_user_id), "/openedx">>

ChmodBin == <<"chmod", "-R", "a+x", "/openedx/bin">>

\* The steps of collected that create the user, hand it /openedx and
\* switch to it (lines 327-339).
PrivilegeSteps(dockerize_file, tutor_dir, app_user_id) ==
    << WithEnvVariable("PATH", CollectedEarlyPath),
       WithDirectory("/openedx/bin", tutor_dir),
       WithExec(ChmodBin),
       WithExec(Useradd(app_user_id)),
       WithExec(ChownOpenedx(app_user_id)),
       WithUser(ToString(app_user_id)),
       WithMountedFile(DockerizePath, dockerize_file) >>

Cp(from, to) == <<"cp", from, to>>

\* The steps of collected that follow the switch (lines 342-380).
AppUserSteps(custom_settings) ==
      << WithEnvVariable("PATH", AppUserPath),
         WithWorkdir("/openedx/edx-platform"),
         WithExec(<<"uv", "pip", "install", "-e", ".">>),
         WithExec(<<"mkdir", "-p", "/openedx/config", "./lms/envs/mitol", "./cms/envs/mitol">>),
         WithMountedDirectory("/tmp/custom_settings", custom_settings),
         WithExec(Cp("/tmp/custom_settings/lms.env.yml", "/openedx/config/lms.env.yml")),
         WithExec(Cp("/tmp/custom_settings/cms.env.yml", "/openedx/config/cms.env.yml")),
         WithExec(Cp("/tmp/custom_settings/lms/assets.py", "/openedx/edx-platform/lms/envs/mitol/assets.py")),
         WithExec(Cp("/tmp/custom_settings/lms/i18n.py", "/openedx/edx-platform/lms/envs/mitol/i18n.py")),
         WithExec(Cp("/tmp/custom_settings/cms/assets.py", "/openedx/edx-platform/cms/envs/mitol/assets.py")),
         WithExec(Cp("/tmp/custom_settings/cms/i18n.py", "/openedx/edx-platform/cms/envs/mitol/i18n.py")),
         WithExec(Cp("/tmp/custom_settings/set_waffle_flags.py", "/openedx/edx-platform/set_waffle_flags.py")),
         WithExec(Cp("/tmp/custom_settings/process_scheduled_emails.py", "/openedx/edx-platform/process_scheduled_emails.py")),
         WithExec(Cp("/tmp/custom_settings/saml_pull.py", "/openedx/edx-platform/saml_pull.py")),
         WithEnvVariable("REVISION_CFG", "/openedx/config/revisions.yml"),
         WithEnvVariable("LMS_CFG", "/openedx/config/lms.env.yml"),
         WithEnvVariable("CMS_CFG", "/openedx/config/cms.env.yml"),
         WithEnvVariable("NO_PYTHON_UNINSTALL", "1"),
         WithEnvVariable("NO_PREREQ_INSTALL", "0") >>

\* Mutant: the user is switched before /openedx is handed to it.
collected_chown_after_switch(c, deployment_name, dockerize_file, tutor_dir, custom_settings, app_user_id, include_locales) ==
    IF app_user_id = 0 THEN ValueError(c)
    ELSE Chain(c, << WithEnvVariable("PATH", CollectedEarlyPath),
                     WithDirectory("/openedx/bin", tutor_dir),
                     WithExec(ChmodBin),
                     WithExec(Useradd(app_user_id)),
                     WithUser(ToString(app_user_id)),
                     WithExec(ChownOpenedx(app_user_id)),
                     WithMountedFile(DockerizePath, dockerize_file) >>
                  \o AppUserSteps(custom_settings))

\* Mutant: the check of the id is missing.
collected_unchecked(c, deployment_name, dockerize_file, tutor_dir, custom_settings, app_user_id, include_locales) ==
    Chain(c, PrivilegeSteps(dockerize_file, tutor_dir, app_user_id)
             \o AppUserSteps(custom_settings))

collected(c, deployment_name, dockerize_file, tutor_dir, custom_settings, app_user_id, include_locales) ==
    IF app_user_id = 0 THEN ValueError(c)
    ELSE Chain(c, PrivilegeSteps(dockerize_file, tutor_dir, app_user_id)
                  \o AppUserSteps(custom_settings))

AtlasOptions(translations_repository, translations_branch) ==
    "--repository " \o translations_repository \o " --revision " \o translations_branch

\* The translation-pulling commands of fetch_translations, as written
\* before their "|| true".
PullPluginTranslations(atlas_options) ==
    "python manage.py lms pull_plugin_translations " \o atlas_options

PullXblockTranslations(atlas_options) ==
    "python manage.py lms pull_xblock_translations " \o atlas_options

AtlasPullPlatform(atlas_options) ==
    "atlas pull " \o atlas_options \o " translations/edx-platform/conf/locale:conf/locale"

AtlasPullStudio(atlas_options) ==
    "atlas pull " \o atlas_options
        \o " translations/studio-frontend/src/i18n/messages:conf/plugins-locale/studio-frontend"

\* The compile commands of fetch_translations that run under "|| true".
CompilePluginTranslations == "python manage.py lms compile_plugin_translations"

CompileXblockTranslations(service) ==
    "python manage.py " \o service \o " compile_xblock_translations"

\* Mutant: pull_plugin_translations runs without its "|| true".
fetch_translations_unguarded(c, translations_repository, translations_branch) ==
    LET atlas_options == AtlasOptions(translations_repository, translations_branch) IN
    Chain(c,
      << WithEnvVariable("DJANGO_SETTINGS_MODULE", "lms.envs.mitol.i18n"),
         WithWorkdir("/openedx/edx-platform"),
         WithExec(Sh(PullPluginTranslations(atlas_options))),
         WithExec(Sh(CompilePluginTranslations \o " || true")),
         WithExec(Sh(PullXblockTranslations(atlas_options) \o " || true")),
         WithExec(Sh(AtlasPullPlatform(atlas_options) \o " || true")),
         WithExec(<<"python", "manage.py", "lms", "compilemessages">>),
         WithExec(<<"python", "manage.py", "lms", "compilejsi18n">>),
         WithEnvVariable("DJANGO_SETTINGS_MODULE", "cms.envs.mitol.i18n"),
         WithExec(Sh(AtlasPullStudio(atlas_options) \o " || true")),
         WithExec(<<"python", "manage.py", "cms", "compilejsi18n">>) >>)

fetch_translations(c, translations_repository, translations_branch) ==
    LET atlas_options == AtlasOptions(translations_repository, translations_branch) IN
    Chain(c,
      << WithEnvVariable("DJANGO_SETTINGS_MODULE", "lms.envs.mitol.i18n"),
         WithWorkdir("/openedx/edx-platform"),
         WithExec(Sh(PullPluginTranslations(atlas_options) \o " || true")),
         WithExec(Sh(CompilePluginTranslations \o " || true")),
         WithExec(Sh(PullXblockTranslations(atlas_options) \o " || true")),
         WithExec(Sh(CompileXblockTranslations("lms") \o " || true")),
         WithExec(Sh(AtlasPullPlatform(atlas_options) \o " || true")),
         WithExec(<<"python", "manage.py", "lms", "compilemessages">>),
         WithExec(<<"python", "manage.py", "lms", "compilejsi18n">>),
         WithEnvVariable("DJANGO_SETTINGS_MODULE", "cms.envs.mitol.i18n"),
         WithExec(Sh(CompileXblockTranslations("cms") \o " || true")),
         WithExec(Sh(AtlasPullStudio(atlas_options) \o " || true")),
         WithExec(<<"python", "manage.py", "cms", "compilejsi18n">>) >>)

CompileSass(deployment_name) ==
    <<"npm", "run", "compile-sass", "--",
      "--theme-dir", "/openedx/themes/", "--theme", deployment_name>>

Collectstatic(service) ==
    <<"python", "manage.py", service, "collectstatic", "--noinput", "--settings=mitol.assets">>

build_static_assets(c, deployment_name) ==
    Chain(c,
      << WithEnvVariable("STATIC_ROOT_LMS", "/openedx/staticfiles/"),
         WithEnvVariable("NODE_ENV", "prod"),
         WithEnvVariable("JS_ENV_EXTRA_CONFIG",
            "{\"PROCTORTRACK_CDN_URL\":\"\\\"\\\"\",\"PROCTORTRACK_CONFIG_KEY\":\"\\\"\\\"\"}"),
         WithExec(<<"mkdir", "-p", "/openedx/staticfiles/">>),
         WithExec(<<"npm", "run", "postinstall">>),
         WithExec(CompileSass(deployment_name)),
         WithExec(Collectstatic("lms")),
         WithExec(Collectstatic("cms")),
         WithExec(<<"npm", "run", "webpack">>),
         WithExec(Collectstatic("lms")),
         WithExec(Collectstatic("cms")),
         WithExec(<<"rdfind", "-makesymlinks", "true", "-followsymlinks", "true", "/openedx/staticfiles/">>),
         WithExec(<<"mkdir", "-p", "/openedx/data/export_course_repos">>),
         WithExec(<<"mkdir", "-p", "/openedx/data/var/log/edx">>) >>)

\* Mutant: DJANGO_SETTINGS_MODULE is left as fetch_translations set it.
docker_image_settings_kept(c, deployment_name, release_name) ==
    Chain(c,
      << WithExec(<<"python", "-m", "compileall", "-q", "/openedx/edx-platform", "/openedx/venv">>),
         WithExec(<<"mkdir", "/openedx/.ssh">>),
         WithExec(<<"chown", "app:app", "/openedx/.ssh">>),
         WithExec(<<"chmod", "0700", "/openedx/.ssh">>),
         WithExec(Sh("ssh-keyscan 'github.com' 'github.mit.edu' >> /openedx/.ssh/known_hosts")),
         WithExec(<<"chmod", "0600", "/openedx/.ssh/known_hosts">>),
         WithExec(<<"mkdir", "-p", "/openedx/data/export_course_repos">>),
         WithExec(<<"git", "config", "--global", "--add", "safe.directory", "*">>) >>)

\* Mutant: the .ssh directory is set up as root.
docker_image_as_root(c, deployment_name, release_name) ==
    Chain(c,
      << WithEnvVariable("DJANGO_SETTINGS_MODULE", "invalid"),
         WithUser("root"),
         WithExec(<<"mkdir", "/openedx/.ssh">>),
         WithExec(<<"chown", "app:app", "/openedx/.ssh">>),
         WithExec(<<"chmod", "0700", "/openedx/.ssh">>),
         WithUser("app") >>)

docker_image(c, deployment_name, release_name) ==
    Chain(c,
      << WithEnvVariable("DJANGO_SETTINGS_MODULE", "invalid"),
         WithExec(<<"python", "-m", "compileall", "-q", "/openedx/edx-platform", "/openedx/venv">>),
         WithExec(<<"mkdir", "/openedx/.ssh">>),
         WithExec(<<"chown", "app:app", "/openedx/.ssh">>),
         WithExec(<<"chmod", "0700", "/openedx/.ssh">>),
         WithExec(Sh("ssh-keyscan 'github.com' 'github.mit.edu' >> /openedx/.ssh/known_hosts")),
         WithExec(<<"chmod", "0600", "/openedx/.ssh/known_hosts">>),
         WithExec(<<"mkdir", "-p", "/openedx/data/export_course_repos">>),
         WithExec(<<"git", "config", "--global", "--add", "safe.directory", "*">>) >>)

(***************************************************************************)
(* publish_platform                                                        *)
(***************************************************************************)
WithRegistryAuth(address, username, secret) ==
    Op("registry_auth", <<address, username, secret>>)

PublicationError(c, pushes) == [err |-> "publication", c |-> c, ref |-> None, pushes |-> pushes]

Published(c, ref, pushes) == [err |-> "none", c |-> c, ref |-> ref, pushes |-> pushes]

\* Mutant: a push that fails is attempted a second time.
Publish_retried(c, address, engine) ==
    IF engine.push = "pushed"
    THEN Published(c, address \o engine.suffix, <<address>>)
    ELSE PublicationError(c, <<address, address>>)

\* await container.publish(address): the engine pushes c under the address
\* and returns the address of the pushed image as it reports it, or the
\* push fails (the registry is unreachable or rejects the credentials).
Publish(c, address, engine) ==
    IF engine.push = "pushed"
    THEN Published(c, address \o engine.suffix, <<address>>)
    ELSE PublicationError(c, <<address>>)

\* Mutant: the tag is left out of the reference.
ImageRef_tag_dropped(registry, repository, tag) == registry \o "/" \o repository

\* f"{registry}/{repository}:{tag}"
ImageRef(registry, repository, tag) == registry \o "/" \o repository \o ":" \o tag

\* Mutant: the credentials are registered when either of them is given.
publish_platform_auth_if_any(c, registry, repository, tag, username, password, engine) ==
    LET image_ref == ImageRef(registry, repository, tag) IN
    IF Truthy(username) \/ Truthy(password)
    THEN Publish(Apply(c, WithRegistryAuth(registry, username, password)), image_ref, engine)
    ELSE Publish(c, image_ref, engine)

publish_platform(c, registry, repository, tag, username, password, engine) ==
    LET image_ref == ImageRef(registry, repository, tag) IN
    IF Truthy(username) /\ Truthy(password)
    THEN Publish(Apply(c, WithRegistryAuth(registry, username, password)), image_ref, engine)
    ELSE Publish(c, image_ref, engine)

(***************************************************************************)
(* The service image builders                                              *)
(***************************************************************************)
\* Mutant: the release is not looked at.
DefaultPythonVersion_fixed(release_name) == "3.11"

\* "3.12" if release_name == "master" else "3.11"
DefaultPythonVersion(release_name) == IF release_name = "master" THEN "3.12" ELSE "3.11"

SandboxReqUrl(release_name) ==
    IF release_name # "master"
    THEN "https://raw.githubusercontent.com/openedx/edx-platform/master/requirements/edx-sandbox/releases/"
            \o release_name \o ".txt"
    ELSE "https://raw.githubusercontent.com/openedx/edx-platform/master/requirements/edx-sandbox/base.txt"

build_codejail(release_name, python_version_arg, codejail_config_arg) ==
    LET codejail_config == IF codejail_config_arg = None
                           THEN "directory(module:codejail_config)"
                           ELSE codejail_config_arg
        python_version == IF python_version_arg = None
                          THEN DefaultPythonVersion(release_name)
                          ELSE python_version_arg
    IN
    Chain(DagContainer,
      << From("python:" \o python_version \o "-slim-trixie"),
         WithExec(<<"bash", "-c", "echo 'shell configured'">>),
         WithEnvVariable("DEBIAN_FRONTEND", "noninteractive"),
         WithEnvVariable("DEBCONF_NONINTERACTIVE_SEEN", "true"),
         WithEnvVariable("CODEJAIL_GROUP", "sandbox"),
         WithEnvVariable("CODEJAIL_SANDBOX_CALLER", "debian"),
         WithEnvVariable("CODEJAIL_USER", "sandbox"),
         WithEnvVariable("CODEJAIL_VENV", "/sandbox/venv"),
         WithEnvVariable("OPEN_EDX_RELEASE", release_name),
         WithEnvVariable("OPEN_EDX_BRANCH", release_name),
         WithExec(<<"apt-get", "update">>),
         WithExec(<<"apt", "install", "-y", "--no-install-recommends",
                    "build-essential", "python3-virtualenv", "python3-pip",
                    "git", "sudo", "libxslt-dev">>),
         WithExec(<<"apt", "clean">>),
         WithExec(<<"rm", "-rf", "/var/lib/apt/lists/*">>),
         WithExec(<<"virtualenv", "-p", "python" \o python_version,
                    "--always-copy", "/sandbox/venv">>),
         WithExec(<<"addgroup", "sandbox">>),
         WithExec(<<"adduser", "--disabled-login", "--disabled-password",
                    "sandbox", "--ingroup", "sandbox">>),
         WithExec(<<"addgroup", "debian">>),
         WithExec(<<"adduser", "--disabled-login", "--disabled-password",
                    "debian", "--ingroup", "debian">>),
         WithExec(<<"chown", "-R", "sandbox:sandbox", "/sandbox/venv">>),
         WithEnvVariable("PATH", "/sandbox/venv/bin:/usr/local/bin:/usr/bin:/bin"),
         WithWorkdir("/codejail"),
         WithExec(<<"git", "clone", "https://github.com/eduNEXT/codejailservice/",
                    "--branch", "main", "--depth", "1", "/codejail">>),
         WithFile("/etc/sudoers.d/01-sandbox", codejail_config \o "/01-sandbox"),
         WithExec(<<"pip", "install", "--no-cache-dir", "-r", "requirements/base.txt">>),
         WithExec(<<"pip", "install", "--no-cache-dir", "gunicorn">>),
         WithExec(<<"bash", "-c",
                    "source /sandbox/venv/bin/activate && pip install --no-cache-dir -r "
                        \o SandboxReqUrl(release_name) \o " && deactivate">>),
         WithExec(<<"chmod", "0440", "/etc/sudoers.d/01-sandbox">>),
         WithExec(<<"chown", "-R", "debian:debian", "/codejail">>),
         WithUser("debian"),
         WithEntrypoint(<<"gunicorn", "-b", "0.0.0.0:8000", "--workers", "2",
                          "--max-requests=1000", "wsgi">>) >>)

NotesPort == 8000

build_notes(release_name, python_version, notes_config_arg) ==
    LET notes_config == IF notes_config_arg = None
                        THEN "directory(module:notes_config)"
                        ELSE notes_config_arg
    IN
    Chain(DagContainer,
      << From("python:" \o python_version \o "-slim"),
         WithExec(<<"apt", "update">>),
         WithExec(<<"apt", "install", "-y", "git", "mariadb-client",
                    "default-libmysqlclient-dev", "build-essential", "pkg-config">>),
         WithExec(<<"apt", "clean">>),
         WithExec(<<"useradd", "--home-dir", "/app", "--create-home",
                    "--shell", "/bin/bash", "--uid", "1000", "app">>),
         WithUser("1000"),
         WithWorkdir("/app/edx-notes-api"),
         WithEnvVariable("PATH", "/app/.local/bin:/usr/local/bin:/usr/bin:/bin"),
         WithExec(<<"git", "clone", "https://github.com/edx/edx-notes-api",
                    "--branch", release_name, "--depth", "1", "/app/edx-notes-api">>),
         WithExec(<<"pip", "install", "--no-cache-dir", "-r", "requirements/base.txt">>),
         WithFile("/app/edx-notes-api/notesserver/settings/env_config.py",
                  notes_config \o "/env_config.py"),
         WithEnvVariable("APP_PORT", "8000"),
         WithExposedPort(NotesPort),
         WithEntrypoint(<<"gunicorn", "--workers=2", "--name", "notes",
                          "--bind=0.0.0.0:8000", "--max-requests=1000",
                          "notesserver.wsgi:application">>) >>)

(***************************************************************************)
(* build_mfe                                                               *)
(***************************************************************************)
\* str.lower() on the letters A-Z; every other character is kept.
LowerChar(ch) ==
    CASE ch = "A" -> "a" [] ch = "B" -> "b" [] ch = "C" -> "c" [] ch = "D" -> "d"
      [] ch = "E" -> "e" [] ch = "F" -> "f" [] ch = "G" -> "g" [] ch = "H" -> "h"
      [] ch = "I" -> "i" [] ch = "J" -> "j" [] ch = "K" -> "k" [] ch = "L" -> "l"
      [] ch = "M" -> "m" [] ch = "N" -> "n" [] ch = "O" -> "o" [] ch = "P" -> "p"
      [] ch = "Q" -> "q" [] ch = "R" -> "r" [] ch = "S" -> "s" [] ch = "T" -> "t"
      [] ch = "U" -> "u" [] ch = "V" -> "v" [] ch = "W" -> "w" [] ch = "X" -> "x"
      [] ch = "Y" -> "y" [] ch = "Z" -> "z" [] OTHER -> ch

RECURSIVE Lower(_)
Lower(str) ==
    IF Len(str) = 0 THEN ""
    ELSE LowerChar(SubSeq(str, 1, 1)) \o Lower(SubSeq(str, 2, Len(str)))

\* slot_config.file(name)
SlotFile(slot_config, name) == "file(" \o slot_config \o ":" \o name \o ")"

SmootDesignSteps ==
    << WithExec(<<"npm", "pack", "@mitodl/smoot-design@^6.12.0">>),
       WithExec(Sh("tar -xvzf mitodl-smoot-design*.tgz")),
       WithExec(<<"mkdir", "-p", "public/static/smoot-design">>),
       WithExec(Sh("cp package/dist/bundles/* public/static/smoot-design/")) >>

\* The body of build_mfe once is_learning_mfe is known.
MfeSteps(is_learning_mfe, mfe_repo, mfe_branch, node_version, deployment_name, slot_config_arg, enable_smoot_design, enable_ai_drawer, styles_file) ==
    LET slot_config == IF slot_config_arg = None
                       THEN "directory(module:mfe_slot_config)"
                       ELSE slot_config_arg
        config_file == IF is_learning_mfe THEN "learning-mfe-config"
                       ELSE deployment_name \o "/common-mfe-config"
        r ==
          Chain(DagContainer,
            << From("node:" \o node_version \o "-trixie-slim"),
               WithExec(<<"apt-get", "update">>),
               WithExec(<<"apt", "install", "-y", "python3", "python-is-python3",
                          "build-essential", "git">>),
               WithExec(<<"apt", "clean">>),
               WithWorkdir("/app"),
               WithExec(<<"git", "clone", "--branch", mfe_branch, "--depth", "1",
                          mfe_repo, "mfe">>),
               WithWorkdir("/app/mfe"),
               WithFile("/app/mfe/Footer.jsx", SlotFile(slot_config, "Footer.jsx")),
               WithFile("/app/mfe/env.config.jsx",
                        SlotFile(slot_config, config_file \o ".env.jsx")) >>
            \o (IF is_learning_mfe
                THEN << WithFile("/app/mfe/common-mfe-config.env.jsx",
                                 SlotFile(slot_config,
                                          deployment_name \o "/common-mfe-config.env.jsx")) >>
                ELSE <<>>)
            \o (IF enable_ai_drawer /\ is_learning_mfe
                THEN << WithFile("/app/mfe/AIDrawerManagerSidebar.jsx",
                                 SlotFile(slot_config, "AIDrawerManagerSidebar.jsx")),
                        WithFile("/app/mfe/SidebarAIDrawerCoordinator.jsx",
                                 SlotFile(slot_config, "SidebarAIDrawerCoordinator.jsx")) >>
                ELSE <<>>)
            \o (IF Truthy(styles_file)
                THEN << WithFile("/app/mfe/" \o styles_file,
                                 SlotFile(slot_config, styles_file)) >>
                ELSE <<>>)
            \o << WithExec(<<"npm", "install">>),
                  WithExec(<<"npm", "install", "-g", "@edx/openedx-atlas">>) >>
            \o (IF enable_smoot_design /\ is_learning_mfe THEN SmootDesignSteps ELSE <<>>)
            \o << WithExec(<<"npm", "install", "webpack">>),
                  WithEnvVariable("NODE_ENV", "production"),
                  WithExec(<<"npm", "run", "build">>) >>)
    IN [err |-> r.err, c |-> r.c, dir |-> DirectoryOf(r.c, "/app/mfe/dist")]

\* Mutant: the name is compared as it is written.
build_mfe_case_sensitive(mfe_name, mfe_repo, mfe_branch, node_version, deployment_name, slot_config_arg, enable_smoot_design, enable_ai_drawer, styles_file) ==
    MfeSteps(mfe_name = "learning", mfe_repo, mfe_branch, node_version, deployment_name,
             slot_config_arg, enable_smoot_design, enable_ai_drawer, styles_file)

build_mfe(mfe_name, mfe_repo, mfe_branch, node_version, deployment_name, slot_config_arg, enable_smoot_design, enable_ai_drawer, styles_file) ==
    MfeSteps(Lower(mfe_name) = "learning", mfe_repo, mfe_branch, node_version,
             deployment_name, slot_config_arg, enable_smoot_design, enable_ai_drawer,
             styles_file)

(***************************************************************************)
(* Inputs                                                                  *)
(***************************************************************************)
DeploymentNames == {"mitx", "mitxonline"}
ReleaseNames == {"master", "sumac"}
Sources == {None, "A"}
PlatformRepos == {"", "https://github.com/openedx/edx-platform"}
PlatformBranches == {"", "master"}
ThemeSources == {None, "B"}
ThemeRepos == {None, "", "https://github.com/mitodl/mitx-theme"}
ThemeBranches == {None, "main"}
PythonVersions == {None, "3.10"}

\* The (repository, branch) pairs build_platform is called with.
PlatformRemotes ==
    { <<"", "master">>,
      <<"https://github.com/openedx/edx-platform", "">>,
      <<"https://github.com/openedx/edx-platform", "master">> }

ThemeRemotes ==
    { <<None, None>>,
      <<"", "main">>,
      <<"https://github.com/mitodl/mitx-theme", None>>,
      <<"https://github.com/mitodl/mitx-theme", "main">> }

\* The arguments of publish_platform.
Registries == {"r.example", "ghcr.io"}
Repositories == {"org/img"}
Tags == {None, "v1"}
DefaultTag == "latest"
Usernames == {None, "", "u"}
Passwords == {None, "secret(token)"}

\* The arguments of build_mfe.
MfeNames == {"learning", "Learning", "LEARNING", "learning-mfe", "discussions"}
StylesFiles == {None, "", "mitxonline-styles.scss"}
DefaultMfeBranch == "master"
DefaultMfeRepo == "https://github.com/openedx/frontend-app-learning"

\* What the engine and the registry do with a push: the push goes through
\* and the engine returns the address, as it is or qualified with the
\* digest of the image, or the registry is unreachable or rejects the push.
Engines ==
    { [push |-> "pushed", suffix |-> ""],
      [push |-> "pushed", suffix |-> "@sha256:0a1b2c"],
      [push |-> "unreachable", suffix |-> ""],
      [push |-> "rejected", suffix |-> ""] }

DefaultAppUserId == 1000
OtherAppUserId == 1001
AppUserIds == {0, DefaultAppUserId, OtherAppUserId}

\* Defaults of the signatures.
DefaultNodeVersion == "20.18.0"
DefaultLocaleVersion == "master"
DefaultTutorVersion == "v19.0.0"
DefaultTranslationsRepo == "mitodl/mitxonline-translations"
DefaultTranslationsBranch == "main"
DefaultAtlasOptions == AtlasOptions(DefaultTranslationsRepo, DefaultTranslationsBranch)

\* The translation-pulling commands of fetch_translations.
TranslationPulls ==
    { Sh(PullPluginTranslations(DefaultAtlasOptions)),
      Sh(PullXblockTranslations(DefaultAtlasOptions)),
      Sh(AtlasPullPlatform(DefaultAtlasOptions)),
      Sh(AtlasPullStudio(DefaultAtlasOptions)) }

\* The other commands that run under "|| true": the move of the locale
\* files in locales and the compile commands of fetch_translations.
OtherSuppressed ==
    { Sh(LocaleMv), Sh(CompilePluginTranslations),
      Sh(CompileXblockTranslations("lms")), Sh(CompileXblockTranslations("cms")) }

\* The sets of failing commands the environment chooses from.  Sh(X) stands
\* for the failure of X when a shell runs it, alone or in "X || true".
FailChoices ==
    {{}} \cup {{x} : x \in TranslationPulls} \cup {TranslationPulls}
    \cup { {CompileSass(d) : d \in DeploymentNames},
           {<<"python", "manage.py", "lms", "compilemessages">>},
           {GitClone(DefaultLocaleVersion, LocaleRepo, "/tmp/openedx-i18n")},
           {UvVenv},
           {Sh(LocaleMv)},
           {Sh(CompilePluginTranslations), Sh(CompileXblockTranslations("cms"))} }

NoArgs == [deployment_name |-> None]

NoStage == [stage |-> "none", in |-> DagContainer, out |-> DagContainer, err |-> "none"]

NoCall == [fn |-> "none", in |-> DagContainer, args |-> NoArgs, res |-> Ok(DagContainer)]

\* Two invocations run side by side; each has its arguments and its local
\* variables.
RunIds == {1, 2}

IdleRun ==
    [ pc |-> "idle", args |-> NoArgs, container |-> DagContainer,
      tutor_bin |-> None, dockerize_bin |-> None, res |-> None ]

\* The containers of direct calls: the base container and a container
\* collected has returned.
BaseHandle == apt_base("3.11").c

CollectedHandle(c, app_user_id) ==
    collected(c, "mitx", FileOf(dockerize.c, DockerizePath),
              DirectoryOf(tutor_utils(DefaultTutorVersion).c, TutorBinPath),
              "custom_settings", app_user_id, TRUE)

Handles ==
    {BaseHandle} \cup {r.c : r \in {x \in {CollectedHandle(BaseHandle, DefaultAppUserId)} :
                                      x.err = "none"}}

\* The containers a caller holds before the call, in the order it got them.
HandleSeq ==
    LET r == CollectedHandle(BaseHandle, DefaultAppUserId) IN
    IF r.err = "none" THEN <<BaseHandle, r.c>> ELSE <<BaseHandle>>

Init ==
    /\ failing \in FailChoices
    /\ pc = "idle"
    /\ args = NoArgs
    /\ container = DagContainer
    /\ tutor_bin = None
    /\ dockerize_bin = None
    /\ trace = <<>>
    /\ last = NoStage
    /\ call = NoCall
    /\ heap = HandleSeq
    /\ runs = [i \in RunIds |-> IdleRun]

(***************************************************************************)
(* build_platform                                                          *)
(***************************************************************************)
\* The container a function returns is a new object; a function that raises
\* returns none.
Returned(r) == IF r.err = "none" THEN Append(heap, r.c) ELSE heap

\* Mutant: the stage is called and its result is dropped.
Stage_result_dropped(name, in, r, next) ==
    /\ trace' = Append(trace, name)
    /\ last' = [stage |-> name, in |-> in, out |-> r.c, err |-> r.err]
    /\ heap' = Returned(r)
    /\ container' = IF name = "apt_base" /\ r.err = "none" THEN r.c ELSE container
    /\ pc' = IF r.err = "none" THEN next
             ELSE IF r.err = "config" THEN "raised_config" ELSE "raised_exec"

\* Mutant: the stage changes the container object it was given and returns
\* that object.
Stage_in_place(name, in, r, next) ==
    /\ trace' = Append(trace, name)
    /\ last' = [stage |-> name, in |-> in, out |-> r.c, err |-> r.err]
    /\ heap' = IF \E h \in 1..Len(heap) : heap[h] = in
               THEN [h \in 1..Len(heap) |-> IF heap[h] = in THEN r.c ELSE heap[h]]
               ELSE Returned(r)
    /\ IF r.err = "none"
       THEN container' = r.c /\ pc' = next
       ELSE container' = container /\ pc' = IF r.err = "config" THEN "raised_config"
                                                                ELSE "raised_exec"

\* Mutant: an error of a stage is caught and the pipeline goes on with the
\* container the stage had reached.
Stage_error_caught(name, in, r, next) ==
    /\ trace' = Append(trace, name)
    /\ last' = [stage |-> name, in |-> in, out |-> r.c, err |-> r.err]
    /\ heap' = Returned(r)
    /\ container' = r.c
    /\ pc' = next

\* A stage call and the assignment of its result to container: an error
\* leaves build_platform and container keeps its value.
Stage(name, in, r, next) ==
    /\ trace' = Append(trace, name)
    /\ last' = [stage |-> name, in |-> in, out |-> r.c, err |-> r.err]
    /\ heap' = Returned(r)
    /\ IF r.err = "none"
       THEN container' = r.c /\ pc' = next
       ELSE container' = container /\ pc' = IF r.err = "config" THEN "raised_config"
                                                                ELSE "raised_exec"

\* The call: the arguments are bound and python_version is resolved.
build_platform ==
    /\ pc = "idle" /\ call = NoCall
    /\ \E deployment_name \in DeploymentNames, release_name \in ReleaseNames,
          source \in Sources, platform \in PlatformRemotes,
          theme_source \in ThemeSources, theme \in ThemeRemotes,
          python_version \in PythonVersions, include_locales \in BOOLEAN :
        args' = [ deployment_name |-> deployment_name,
                  release_name |-> release_name,
                  pip_package_lists |-> "pip_package_lists",
                  pip_package_overrides |-> "pip_package_overrides",
                  custom_settings |-> "custom_settings",
                  source |-> source,
                  platform_repo |-> platform[1],
                  platform_branch |-> platform[2],
                  theme_source |-> theme_source,
                  theme_repo |-> theme[1],
                  theme_branch |-> theme[2],
                  python_version_given |-> python_version,
                  python_version |-> IF python_version = None
                                     THEN DefaultPythonVersion(release_name)
                                     ELSE python_version,
                  node_version |-> DefaultNodeVersion,
                  locale_version |-> DefaultLocaleVersion,
                  translations_repo |-> DefaultTranslationsRepo,
                  translations_branch |-> DefaultTranslationsBranch,
                  include_locales |-> include_locales ]
    /\ pc' = "apt_base"
    /\ UNCHANGED <<failing, container, tutor_bin, dockerize_bin, trace, last, call, heap, runs>>

\* Mutant: the locale stage is entered whatever include_locales is.
Step1_apt_base_always_locales ==
    /\ pc = "apt_base"
    /\ Stage("apt_base", DagContainer, apt_base(args.python_version), "locales")
    /\ UNCHANGED <<failing, args, tutor_bin, dockerize_bin, call, runs>>

Step1_apt_base ==
    /\ pc = "apt_base"
    /\ Stage("apt_base", DagContainer, apt_base(args.python_version),
             IF args.include_locales THEN "locales" ELSE "get_code")
    /\ UNCHANGED <<failing, args, tutor_bin, dockerize_bin, call, runs>>

Step2_locales ==
    /\ pc = "locales"
    /\ Stage("locales", container, locales(container, args.locale_version), "get_code")
    /\ UNCHANGED <<failing, args, tutor_bin, dockerize_bin, call, runs>>

Step3_get_code ==
    /\ pc = "get_code"
    /\ Stage("get_code", container,
             get_code(container, args.source, args.platform_repo, args.platform_branch),
             "install_deps")
    /\ UNCHANGED <<failing, args, tutor_bin, dockerize_bin, call, runs>>

Step4_install_deps ==
    /\ pc = "install_deps"
    /\ Stage("install_deps", container,
             install_deps(container, args.deployment_name, args.release_name,
                          args.pip_package_lists, args.pip_package_overrides,
                          args.node_version),
             IF Truthy(args.theme_source) \/ Truthy(args.theme_repo)
             THEN "themes" ELSE "tutor_utils")
    /\ UNCHANGED <<failing, args, tutor_bin, dockerize_bin, call, runs>>

Step5_themes ==
    /\ pc = "themes"
    /\ Stage("themes", container,
             themes(container, args.deployment_name, args.theme_source,
                    args.theme_repo, args.theme_branch),
             "tutor_utils")
    /\ UNCHANGED <<failing, args, tutor_bin, dockerize_bin, call, runs>>

\* tutor_utils() takes no container and its result goes to tutor_bin.
Step6_tutor_utils ==
    /\ pc = "tutor_utils"
    /\ LET r == tutor_utils(DefaultTutorVersion) IN
        /\ trace' = Append(trace, "tutor_utils")
        /\ last' = [stage |-> "tutor_utils", in |-> DagContainer, out |-> r.c, err |-> r.err]
        /\ IF r.err = "none"
           THEN tutor_bin' = DirectoryOf(r.c, TutorBinPath) /\ pc' = "dockerize"
           ELSE tutor_bin' = tutor_bin /\ pc' = "raised_exec"
    /\ UNCHANGED <<failing, args, container, dockerize_bin, call, heap, runs>>

\* dockerize() takes no container and its result goes to dockerize_bin.
Step7_dockerize ==
    /\ pc = "dockerize"
    /\ LET r == dockerize IN
        /\ trace' = Append(trace, "dockerize")
        /\ last' = [stage |-> "dockerize", in |-> DagContainer, out |-> r.c, err |-> r.err]
        /\ IF r.err = "none"
           THEN dockerize_bin' = FileOf(r.c, DockerizePath) /\ pc' = "collected"
           ELSE dockerize_bin' = dockerize_bin /\ pc' = "raised_exec"
    /\ UNCHANGED <<failing, args, container, tutor_bin, call, heap, runs>>

Step8_collected ==
    /\ pc = "collected"
    /\ Stage("collected", container,
             collected(container, args.deployment_name, dockerize_bin, tutor_bin,
                       args.custom_settings, DefaultAppUserId, args.include_locales),
             "fetch_translations")
    /\ UNCHANGED <<failing, args, tutor_bin, dockerize_bin, call, runs>>

Step9_fetch_translations ==
    /\ pc = "fetch_translations"
    /\ Stage("fetch_translations", container,
             fetch_translations(container, args.translations_repo, args.translations_branch),
             "build_static_assets")
    /\ UNCHANGED <<failing, args, tutor_bin, dockerize_bin, call, runs>>

Step10_build_static_assets ==
    /\ pc = "build_static_assets"
    /\ Stage("build_static_assets", container,
             build_static_assets(container, args.deployment_name), "docker_image")
    /\ UNCHANGED <<failing, args, tutor_bin, dockerize_bin, call, runs>>

Step11_docker_image ==
    /\ pc = "docker_image"
    /\ Stage("docker_image", container,
             docker_image(container, args.deployment_name, args.release_name), "returned")
    /\ UNCHANGED <<failing, args, tutor_bin, dockerize_bin, call, runs>>

(***************************************************************************)
(* Direct calls of the functions of the module.  A session is one          *)
(* invocation: of build_platform, or of a single function on the base      *)
(* container or on a container collected has returned.                     *)
(***************************************************************************)
Called(fn, in, a, r) ==
    /\ call' = [fn |-> fn, in |-> in, args |-> a, res |-> r]
    /\ heap' = IF fn \in {"publish_platform", "build_mfe"} THEN heap ELSE Returned(r)
    /\ UNCHANGED <<failing, pc, args, container, tutor_bin, dockerize_bin, trace, last, runs>>

CanCall == pc = "idle" /\ call = NoCall

call_get_code ==
    /\ CanCall
    /\ \E c \in Handles, source \in Sources,
          repo \in PlatformRepos \cup {None}, branch \in PlatformBranches \cup {None} :
        Called("get_code", c,
               [source |-> source, repo |-> repo, branch |-> branch],
               get_code(c, source, repo, branch))

call_themes ==
    /\ CanCall
    /\ \E c \in Handles, deployment_name \in DeploymentNames, theme_source \in ThemeSources,
          repo \in ThemeRepos, branch \in ThemeBranches \cup {""} :
        Called("themes", c,
               [deployment_name |-> deployment_name, source |-> theme_source,
                repo |-> repo, branch |-> branch],
               themes(c, deployment_name, theme_source, repo, branch))

call_collected ==
    /\ CanCall
    /\ \E c \in Handles, app_user_id \in AppUserIds :
        Called("collected", c,
               [deployment_name |-> "mitx", app_user_id |-> app_user_id],
               CollectedHandle(c, app_user_id))

call_build_codejail ==
    /\ CanCall
    /\ \E release_name \in ReleaseNames \cup {"redwood"}, python_version \in PythonVersions :
        Called("build_codejail", DagContainer,
               [release_name |-> release_name, python_version |-> python_version],
               build_codejail(release_name, python_version, None))

call_build_notes ==
    /\ CanCall
    /\ \E release_name \in ReleaseNames :
        Called("build_notes", DagContainer,
               [release_name |-> release_name, python_version |-> "3.11"],
               build_notes(release_name, "3.11", None))

\* tag = None stands for a call that leaves tag to its default.
call_publish_platform ==
    /\ CanCall
    /\ \E c \in Handles, registry \in Registries, repository \in Repositories,
          tag \in Tags, username \in Usernames, password \in Passwords,
          engine \in Engines :
        Called("publish_platform", c,
               [registry |-> registry, repository |-> repository, tag |-> tag,
                username |-> username, password |-> password, engine |-> engine],
               publish_platform(c, registry, repository,
                                IF tag = None THEN DefaultTag ELSE tag,
                                username, password, engine))

call_build_mfe ==
    /\ CanCall
    /\ \E mfe_name \in MfeNames, deployment_name \in DeploymentNames,
          enable_smoot_design \in BOOLEAN, enable_ai_drawer \in BOOLEAN,
          styles_file \in StylesFiles :
        Called("build_mfe", DagContainer,
               [mfe_name |-> mfe_name, deployment_name |-> deployment_name,
                enable_smoot_design |-> enable_smoot_design,
                enable_ai_drawer |-> enable_ai_drawer, styles_file |-> styles_file],
               build_mfe(mfe_name, DefaultMfeRepo, DefaultMfeBranch, DefaultNodeVersion, deployment_name, None,
                         enable_smoot_design, enable_ai_drawer, styles_file))

Next ==
    \/ build_platform
    \/ Step1_apt_base
    \/ Step2_locales
    \/ Step3_get_code
    \/ Step4_install_deps
    \/ Step5_themes
    \/ Step6_tutor_utils
    \/ Step7_dockerize
    \/ Step8_collected
    \/ Step9_fetch_translations
    \/ Step10_build_static_assets
    \/ Step11_docker_image
    \/ call_get_code
    \/ call_themes
    \/ call_collected
    \/ call_build_codejail
    \/ call_build_notes
    \/ call_publish_platform
    \/ call_build_mfe

Spec == Init /\ [][Next]_vars

(***************************************************************************)
(* Concurrent invocations.  The class has no fields and the module no      *)
(* globals besides the engine client: an invocation reads and writes its   *)
(* arguments and its local variables.  The invocations are interleaved     *)
(* between the stage calls of build_platform.                              *)
(***************************************************************************)
\* The assignment of a stage's result to the local variable container.
After(run, r, next) ==
    IF r.err = "none" THEN [run EXCEPT !.container = r.c, !.pc = next]
    ELSE [run EXCEPT !.pc = IF r.err = "config" THEN "raised_config" ELSE "raised_exec"]

\* The statement of build_platform at run.pc, on the local variables of run.
Advance(run) ==
    LET a == run.args
        c == run.container
    IN
    CASE run.pc = "apt_base" ->
            After(run, apt_base(a.python_version),
                  IF a.include_locales THEN "locales" ELSE "get_code")
      [] run.pc = "locales" ->
            After(run, locales(c, a.locale_version), "get_code")
      [] run.pc = "get_code" ->
            After(run, get_code(c, a.source, a.platform_repo, a.platform_branch),
                  "install_deps")
      [] run.pc = "install_deps" ->
            After(run, install_deps(c, a.deployment_name, a.release_name,
                                    a.pip_package_lists, a.pip_package_overrides,
                                    a.node_version),
                  IF Truthy(a.theme_source) \/ Truthy(a.theme_repo)
                  THEN "themes" ELSE "tutor_utils")
      [] run.pc = "themes" ->
            After(run, themes(c, a.deployment_name, a.theme_source, a.theme_repo,
                              a.theme_branch),
                  "tutor_utils")
      [] run.pc = "tutor_utils" ->
            LET r == tutor_utils(DefaultTutorVersion) IN
            IF r.err = "none"
            THEN [run EXCEPT !.tutor_bin = DirectoryOf(r.c, TutorBinPath), !.pc = "dockerize"]
            ELSE [run EXCEPT !.pc = "raised_exec"]
      [] run.pc = "dockerize" ->
            LET r == dockerize IN
            IF r.err = "none"
            THEN [run EXCEPT !.dockerize_bin = FileOf(r.c, DockerizePath), !.pc = "collected"]
            ELSE [run EXCEPT !.pc = "raised_exec"]
      [] run.pc = "collected" ->
            After(run, collected(c, a.deployment_name, run.dockerize_bin, run.tutor_bin,
                                 a.custom_settings, DefaultAppUserId, a.include_locales),
                  "fetch_translations")
      [] run.pc = "fetch_translations" ->
            After(run, fetch_translations(c, a.translations_repo, a.translations_branch),
                  "build_static_assets")
      [] run.pc = "build_static_assets" ->
            After(run, build_static_assets(c, a.deployment_name), "docker_image")
      [] run.pc = "docker_image" ->
            After(run, docker_image(c, a.deployment_name, a.release_name), "returned")
      [] OTHER -> run

\* The sets of failing commands of the concurrent runs.
ConcFailChoices ==
    { {}, {CompileSass(d) : d \in DeploymentNames}, {Sh(LocaleMv)} }

ConcInit ==
    /\ failing \in ConcFailChoices
    /\ pc = "idle"
    /\ args = NoArgs
    /\ container = DagContainer
    /\ tutor_bin = None
    /\ dockerize_bin = None
    /\ trace = <<>>
    /\ last = NoStage
    /\ call = NoCall
    /\ heap = HandleSeq
    /\ runs = [i \in RunIds |-> IdleRun]

\* The invocation i of build_platform: the arguments are bound and
\* python_version is resolved.
conc_build_platform(i) ==
    /\ runs[i].pc = "idle"
    /\ \E deployment_name \in DeploymentNames, theme_source \in ThemeSources,
          include_locales \in BOOLEAN :
        runs' = [runs EXCEPT ![i] =
                  [ IdleRun EXCEPT
                      !.pc = "apt_base",
                      !.args = [ deployment_name |-> deployment_name,
                                 release_name |-> "sumac",
                                 pip_package_lists |-> "pip_package_lists",
                                 pip_package_overrides |-> "pip_package_overrides",
                                 custom_settings |-> "custom_settings",
                                 source |-> "A",
                                 platform_repo |-> "https://github.com/openedx/edx-platform",
                                 platform_branch |-> "master",
                                 theme_source |-> theme_source,
                                 theme_repo |-> None,
                                 theme_branch |-> None,
                                 python_version |-> DefaultPythonVersion("sumac"),
                                 node_version |-> DefaultNodeVersion,
                                 locale_version |-> DefaultLocaleVersion,
                                 translations_repo |-> DefaultTranslationsRepo,
                                 translations_branch |-> DefaultTranslationsBranch,
                                 include_locales |-> include_locales ] ]]
    /\ UNCHANGED <<failing, pc, args, container, tutor_bin, dockerize_bin, trace, last, call, heap>>

\* Mutant: the container is kept in a field of the module object, which the
\* invocations share.
conc_stage_shared_container(i) ==
    /\ runs[i].pc \notin {"idle", "returned", "raised_config", "raised_exec", "published"}
    /\ LET run == Advance([runs[i] EXCEPT !.container = container]) IN
        /\ runs' = [runs EXCEPT ![i] = run]
        /\ container' = run.container
    /\ UNCHANGED <<failing, pc, args, tutor_bin, dockerize_bin, trace, last, call, heap>>

\* The next stage call of the invocation i.
conc_stage(i) ==
    /\ runs[i].pc \notin {"idle", "returned", "raised_config", "raised_exec", "published"}
    /\ runs' = [runs EXCEPT ![i] = Advance(runs[i])]
    /\ UNCHANGED <<failing, pc, args, container, tutor_bin, dockerize_bin, trace, last, call, heap>>

\* The invocation i of publish_platform, on a container the caller holds.
conc_publish_platform(i) ==
    /\ runs[i].pc = "idle"
    /\ \E c \in Handles, tag \in Tags, username \in Usernames, engine \in Engines :
        runs' = [runs EXCEPT ![i] =
                  [ IdleRun EXCEPT
                      !.pc = "published",
                      !.args = [ container |-> c, registry |-> "r.example",
                                 repository |-> "org/img", tag |-> tag,
                                 username |-> username, password |-> "secret(token)",
                                 engine |-> engine ],
                      !.res = publish_platform(c, "r.example", "org/img",
                                               IF tag = None THEN DefaultTag ELSE tag,
                                               username, "secret(token)", engine) ] ]
    /\ UNCHANGED <<failing, pc, args, container, tutor_bin, dockerize_bin, trace, last, call, heap>>

ConcNext ==
    \/ \E i \in RunIds : conc_build_platform(i)
    \/ \E i \in RunIds : conc_stage(i)
    \/ \E i \in RunIds : conc_publish_platform(i)

ConcSpec == ConcInit /\ [][ConcNext]_vars

(***************************************************************************)
(* Properties                                                              *)
(***************************************************************************)
StageOrder ==
    << "apt_base", "locales", "get_code", "install_deps", "themes", "tutor_utils",
       "dockerize", "collected", "fetch_translations", "build_static_assets",
       "docker_image" >>

OptionalStages == {"locales", "themes"}

\* Stages that build from a container of their own and return a file or a
\* directory of it.
UtilityStages == {"tutor_utils", "dockerize"}

Position(stage) == CHOOSE i \in 1..Len(StageOrder) : StageOrder[i] = stage

InTrace(stage) == \E i \in 1..Len(trace) : trace[i] = stage

\* The stage s is called next after the stages called so far: nothing but
\* optional stages is passed over.
NextInOrder(called, s) ==
    LET from == IF called = <<>> THEN 0 ELSE Position(called[Len(called)]) IN
    /\ Position(s) > from
    /\ \A k \in (from + 1)..(Position(s) - 1) : StageOrder[k] \in OptionalStages

StageCalled == trace' # trace

\* C1 as stated: the stages are called in the fixed order, every stage is
\* called with the current state (the output of the stage before it) and its
\* output becomes the current state.
C1_EveryStageThreadsState ==
    [][ StageCalled =>
          /\ trace' = Append(trace, last'.stage)
          /\ NextInOrder(trace, last'.stage)
          /\ last'.in = container
          /\ (last'.err = "none" => container' = last'.out) ]_vars

\* C1 amended: the stages are called in the fixed order; every stage but the
\* utility fetches is called with the current state and its output becomes
\* the current state; tutor_utils and dockerize are called without it, build
\* from a fresh container and leave the current state as it is, their
\* results going to tutor_bin and dockerize_bin.
C1_StageOrderAndThreading ==
    [][ StageCalled =>
          /\ trace' = Append(trace, last'.stage)
          /\ NextInOrder(trace, last'.stage)
          /\ IF last'.stage \in UtilityStages
             THEN /\ last'.in = DagContainer
                  /\ container' = container
                  /\ last'.out # container'
             ELSE /\ last'.in = container
                  /\ (last'.err = "none" => container' = last'.out) ]_vars

C1_Witness == pc = "returned" /\ trace = StageOrder

\* The operations a function has applied to the container it was given.
NewSteps(in, out) == SubSeq(out.steps, Len(in.steps) + 1, Len(out.steps))

IsGitClone(op) ==
    op.kind = "exec" /\ Len(op.args) >= 2 /\ op.args[1] = "git" /\ op.args[2] = "clone"

HasGitClone(steps) == \E i \in 1..Len(steps) : IsGitClone(steps[i])

RemoteUnusable(repo, branch) == ~Truthy(repo) \/ ~Truthy(branch)

DirectCall(fn) == call.fn = fn

\* C2: get_code and themes, given no local artifact and a repository or a
\* branch that is absent or empty, raise the configuration error with no
\* operation applied to the container they were given; in a direct call and
\* in build_platform alike.
C2_NeitherSuppliedFailsFast ==
    /\ (DirectCall("get_code") \/ DirectCall("themes"))
         /\ call.args.source = None /\ RemoteUnusable(call.args.repo, call.args.branch)
       => call.res.err = "config" /\ call.res.c = call.in
    /\ last.stage = "get_code" /\ args.source = None
         /\ RemoteUnusable(args.platform_repo, args.platform_branch)
       => last.err = "config" /\ last.out = last.in
    /\ last.stage = "themes" /\ args.theme_source = None
         /\ RemoteUnusable(args.theme_repo, args.theme_branch)
       => last.err = "config" /\ last.out = last.in

C2_Witness ==
    /\ DirectCall("themes") /\ call.args.source = None
    /\ Truthy(call.args.repo) /\ call.args.branch = None
    /\ call.res.err = "config" /\ call.in.steps # <<>>

\* C3 as stated: a build_platform invocation that ends in a configuration
\* error has applied no external operation at all.
C3_NoOperationBeforeConfigError ==
    pc = "raised_config" => container.steps = <<>> /\ last.out.steps = <<>>

\* C3 amended: a build_platform invocation that ends in a configuration
\* error raises it in get_code or themes before any operation of that stage
\* is applied; the operations of the stages before it (apt_base's image
\* instantiation, file and execs, at the least) have been applied by then.
C3_ConfigErrorAtStageBoundary ==
    pc = "raised_config" =>
        LET base == apt_base(args.python_version).c IN
        /\ last.stage \in {"get_code", "themes"}
        /\ last.err = "config"
        /\ last.out = last.in /\ last.in = container
        /\ Len(container.steps) >= Len(base.steps)
        /\ SubSeq(container.steps, 1, Len(base.steps)) = base.steps
        /\ (last.stage = "themes" => InTrace("get_code") /\ InTrace("install_deps"))

C3_Witness ==
    /\ pc = "raised_config" /\ last.stage = "themes"
    /\ Truthy(args.theme_repo) /\ args.theme_branch = None

\* C4: a local artifact takes precedence over a (repository, branch) pair:
\* the stage raises no configuration error, mounts the artifact at its
\* documented path, applies no git clone, and returns unless the one command
\* it runs (uv venv, in get_code) fails.
C4_LocalArtifactTakesPrecedence ==
    /\ DirectCall("get_code") /\ call.args.source # None
       => /\ call.res.err # "config"
          /\ <<PlatformPath, call.args.source>> \in call.res.c.mounts
          /\ ~HasGitClone(NewSteps(call.in, call.res.c))
          /\ (UvVenv \notin failing => call.res.err = "none")
    /\ DirectCall("themes") /\ call.args.source # None
       => /\ call.res.err = "none"
          /\ <<ThemePath(call.args.deployment_name), call.args.source>> \in call.res.c.mounts
          /\ ~HasGitClone(NewSteps(call.in, call.res.c))
    /\ last.stage = "get_code" /\ args.source # None
       => /\ last.err # "config"
          /\ <<PlatformPath, args.source>> \in last.out.mounts
          /\ ~HasGitClone(NewSteps(last.in, last.out))
    /\ last.stage = "themes" /\ args.theme_source # None
       => /\ last.err = "none"
          /\ <<ThemePath(args.deployment_name), args.theme_source>> \in last.out.mounts
          /\ ~HasGitClone(NewSteps(last.in, last.out))

C4_Witness ==
    /\ DirectCall("get_code") /\ call.args.source = "A"
    /\ Truthy(call.args.repo) /\ Truthy(call.args.branch)
    /\ call.res.err = "none"
    /\ <<PlatformPath, "A">> \in call.res.c.mounts

\* C5: collected called with app_user_id = 0 raises the configuration error
\* and applies no operation to the container it was given.
C5_RootIdRejected ==
    DirectCall("collected") /\ call.args.app_user_id = 0
    => call.res.err = "config" /\ call.res.c = call.in

C5_Witness ==
    DirectCall("collected") /\ call.args.app_user_id = 0 /\ call.res.err = "config"

IsUserSwitch(op) == op.kind = "user" /\ ~IsRoot(op.args[1])

\* Once a step of c has switched to a non-root user no later step sets the
\* user, and that user is the user of c.
OneWaySwitch(c) ==
    \A i \in 1..Len(c.steps) :
        IsUserSwitch(c.steps[i]) =>
            /\ \A j \in (i + 1)..Len(c.steps) : c.steps[j].kind # "user"
            /\ c.user = c.steps[i].args[1]

\* C6: in build_platform, build_codejail and build_notes the switch to the
\* unprivileged user is one-way: in every state a builder holds or returns,
\* no step after the switch sets the user again and the active user is the
\* one switched to.
C6_UserSwitchIsOneWay ==
    /\ OneWaySwitch(container)
    /\ (last.stage \notin UtilityStages => OneWaySwitch(last.out))
    /\ (DirectCall("build_codejail") \/ DirectCall("build_notes")
        => OneWaySwitch(call.res.c))
    /\ (InTrace("collected") /\ last.err = "none"
        => container.user = ToString(DefaultAppUserId))
    /\ (DirectCall("build_codejail") /\ call.res.err = "none" => call.res.c.user = "debian")
    /\ (DirectCall("build_notes") /\ call.res.err = "none" => call.res.c.user = "1000")

C6_Witness ==
    /\ pc = "returned" /\ container.user = ToString(DefaultAppUserId)
    /\ \E i \in 1..Len(container.steps) :
          IsUserSwitch(container.steps[i]) /\ i < Len(container.steps)

PrivilegeOps(app_user_id) ==
    { WithExec(Useradd(app_user_id)), WithExec(ChownOpenedx(app_user_id)),
      WithUser(ToString(app_user_id)) }

\* C7 as stated: collected never applies its user-creation, ownership and
\* user-switch steps to a state whose active user is not root.
C7_CollectedOnlyOnRoot ==
    /\ (last.stage = "collected" => IsRoot(last.in.user))
    /\ (DirectCall("collected") /\ ~IsRoot(call.in.user)
        => LET new == NewSteps(call.in, call.res.c) IN
           \A i \in 1..Len(new) : new[i] \notin PrivilegeOps(call.args.app_user_id))

\* C7 amended: in build_platform collected is called only on a state whose
\* active user is root; collected itself does not look at the user of its
\* input: a direct call with a non-zero id that returns has applied the
\* user-creation, ownership and user-switch steps, whatever that user was.
C7_CollectedOnRootInPipeline ==
    /\ (last.stage = "collected" => IsRoot(last.in.user) /\ last.in.steps # <<>>)
    /\ (DirectCall("collected") /\ call.args.app_user_id # 0 /\ call.res.err = "none"
        => LET new == NewSteps(call.in, call.res.c)
               steps == PrivilegeSteps(FileOf(dockerize.c, DockerizePath),
                           DirectoryOf(tutor_utils(DefaultTutorVersion).c, TutorBinPath),
                           call.args.app_user_id)
           IN  /\ Len(new) >= Len(steps)
               /\ SubSeq(new, 1, Len(steps)) = steps
               /\ call.res.c.user = ToString(call.args.app_user_id))

C7_Witness ==
    /\ last.stage = "collected" /\ last.err = "none"
    /\ IsRoot(last.in.user) /\ ~IsRoot(last.out.user)

ThemeEnabled == Truthy(args.theme_source) \/ Truthy(args.theme_repo)

Contains(s, sub) ==
    \E i \in 1..(Len(s) - Len(sub) + 1) : SubSeq(s, i, i + Len(sub) - 1) = sub

\* The step mounts at, copies to or names in its command a path at or below
\* path.
StepTargets(op, path) ==
    CASE op.kind \in {"mounted_directory", "mounted_file", "directory", "file"} ->
            StartsWith(op.args[1], path)
      [] op.kind = "exec" ->
            IF IsSh(op.args) THEN Contains(op.args[3], path)
            ELSE \E k \in 1..Len(op.args) : StartsWith(op.args[k], path)
      [] OTHER -> FALSE

Targets(c, path) == \E i \in 1..Len(c.steps) : StepTargets(c.steps[i], path)

RequiredStages == {StageOrder[i] : i \in 1..Len(StageOrder)} \ OptionalStages

\* C8: the locale stage is applied exactly when include_locales is true and
\* the theme stage exactly when theme_source or theme_repo is given (not
\* None, not empty); with a stage skipped, no step of the returned state
\* mounts or names its target path, skipping does not stop the pipeline (it
\* stops only when a command fails or a stage raises), and a returned state
\* has been through every other stage.
C8_OptionalStages ==
    /\ (InTrace("get_code") => (InTrace("locales") <=> args.include_locales))
    /\ (InTrace("tutor_utils") => (InTrace("themes") <=> ThemeEnabled))
    /\ (pc = "returned" =>
          /\ (~args.include_locales => ~Targets(container, LocalePath))
          /\ (~ThemeEnabled => ~Targets(container, ThemePath(args.deployment_name)))
          /\ \A s \in RequiredStages : InTrace(s)
          /\ trace[Len(trace)] = "docker_image")
    /\ (pc = "raised_exec" => failing # {} /\ last.err = "exec")
    /\ (pc = "raised_config" => last.err = "config")

C8_Witness ==
    /\ pc = "returned" /\ ~args.include_locales /\ ~ThemeEnabled
    /\ ~InTrace("locales") /\ ~InTrace("themes")

\* C9 as stated: with the theme stage omitted, build_static_assets runs no
\* step that depends on the theme directory (compile-sass with --theme-dir
\* /openedx/themes/ --theme {deployment_name}).
C9_NoThemeStepWithoutTheme ==
    InTrace("tutor_utils") /\ ~ThemeEnabled =>
        \A i \in 1..Len(container.steps) :
            container.steps[i] # WithExec(CompileSass(args.deployment_name))

OnlyTranslationPullsFail == failing # {} /\ failing \subseteq TranslationPulls

\* C10: when translation-pulling commands of fetch_translations fail and no
\* other command does, build_platform raises no execution error:
\* fetch_translations returns, and a run that has reached it is at
\* build_static_assets, at docker_image or at its return, which it reaches
\* only through both.
C10_TranslationFailureSuppressed ==
    OnlyTranslationPullsFail =>
        /\ pc # "raised_exec"
        /\ (InTrace("fetch_translations") =>
              /\ last.err = "none"
              /\ pc \in {"build_static_assets", "docker_image", "returned"})
        /\ (pc = "returned" => InTrace("build_static_assets") /\ InTrace("docker_image"))

C10_Witness ==
    /\ OnlyTranslationPullsFail /\ pc = "returned"
    /\ trace[Len(trace)] = "docker_image"

Terminal == {"returned", "raised_config", "raised_exec"}

\* The stage is not skipped by the arguments of the invocation.
NotSkipped(stage) ==
    /\ (stage = "locales" => args.include_locales)
    /\ (stage = "themes" => ThemeEnabled)

NoFailingStep(c) == \A i \in 1..Len(c.steps) : ~OpFails(c.steps[i])

\* C11: a build_platform invocation ends in one of two ways.  It returns,
\* from docker_image, the state that every stage its arguments do not skip
\* has been applied to in order, none of them having raised; or a stage
\* raises (a configuration error or the first command of the stage that
\* exits non-zero unsuppressed: every step applied before it succeeded),
\* build_platform's state is left as it was before that stage and nothing is
\* returned.  After either no step or stage is executed, and no stage is
\* called after a stage that raised.
C11_ReturnsOrFirstError ==
    [][ /\ pc \notin Terminal
        /\ (StageCalled => last.err = "none")
        /\ (pc' = "returned" =>
              /\ last'.stage = "docker_image" /\ last'.err = "none"
              /\ container' = last'.out
              /\ trace' = SelectSeq(StageOrder, NotSkipped)
              /\ NoFailingStep(container'))
        /\ (pc' \in {"raised_config", "raised_exec"} =>
              /\ pc' = (IF last'.err = "config" THEN "raised_config" ELSE "raised_exec")
              /\ last'.err # "none"
              /\ container' = container
              /\ NoFailingStep(last'.out)
              /\ (last'.err = "exec" => failing # {})) ]_vars

C11_Witness ==
    /\ pc = "raised_exec" /\ last.stage = "build_static_assets"
    /\ Len(last.out.steps) > Len(last.in.steps)
    /\ ~InTrace("docker_image")

\* The step runs X under sh -c "X || true".
IsSuppressed(op) == op.kind = "exec" /\ IsSh(op.args) /\ EndsWith(op.args[3], OrTrue)

\* The command X of a step sh -c "X || true", as the shell runs it.
Inner(op) == Sh(SubSeq(op.args[3], 1, Len(op.args[3]) - Len(OrTrue)))

\* A step of c has run the command, as it stands or under "|| true".
Ran(c, cmd) ==
    \E i \in 1..Len(c.steps) :
        \/ c.steps[i] = WithExec(cmd)
        \/ IsSuppressed(c.steps[i]) /\ Inner(c.steps[i]) = cmd

\* C12 as stated: in build_platform the only steps run under "|| true" are
\* the translation-pulling commands of fetch_translations, and a run in
\* which any other command it has run fails does not return.
C12_OnlyTranslationPullsSuppressed ==
    /\ \A i \in 1..Len(container.steps) :
          IsSuppressed(container.steps[i]) => Inner(container.steps[i]) \in TranslationPulls
    /\ (pc = "returned" =>
          \A cmd \in failing : Ran(container, cmd) => cmd \in TranslationPulls)

\* C12 amended: the steps of build_platform run under "|| true" are the
\* four translation-pulling commands of fetch_translations, its three
\* compile_plugin_translations / compile_xblock_translations commands and
\* the move of the locale files in locales; a failure of these is swallowed
\* (a run in which only they fail raises no execution error and goes through
\* those steps), and a run in which any other command it has run fails does
\* not return.
C12_SuppressionConfinedToOrTrue ==
    /\ \A i \in 1..Len(container.steps) :
          IsSuppressed(container.steps[i])
              => Inner(container.steps[i]) \in TranslationPulls \cup OtherSuppressed
    /\ (pc = "returned" =>
          /\ \A cmd \in failing :
                Ran(container, cmd) => cmd \in TranslationPulls \cup OtherSuppressed
          /\ \A cmd \in (TranslationPulls \cup OtherSuppressed) \ {Sh(LocaleMv)} :
                Ran(container, cmd)
          /\ (args.include_locales => Ran(container, Sh(LocaleMv))))
    /\ (failing \subseteq TranslationPulls \cup OtherSuppressed => pc # "raised_exec")

C12_Witness ==
    /\ pc = "returned" /\ failing = {Sh(LocaleMv)}
    /\ Ran(container, Sh(LocaleMv))

BothCredentials == Truthy(call.args.username) /\ Truthy(call.args.password)

\* C14: publish_platform registers the registry credentials on the state
\* it pushes (the registration is the last step of the pushed state, for the
\* registry of the call) if and only if a username and a password are both
\* given and non-empty; otherwise it pushes the state it was given, with no
\* registration step.  It then issues the push, and raises nothing itself:
\* with half a credential pair the only error is a failed push.
C14_AuthIffBothCredentials ==
    DirectCall("publish_platform") =>
        /\ IF BothCredentials
           THEN call.res.c.steps =
                    Append(call.in.steps,
                           WithRegistryAuth(call.args.registry, call.args.username,
                                            call.args.password))
           ELSE call.res.c = call.in
        /\ Len(call.res.pushes) >= 1
        /\ (call.res.err = "none" <=> call.args.engine.push = "pushed")
        /\ call.res.err \in {"none", "publication"}

C14_Witness ==
    /\ DirectCall("publish_platform")
    /\ call.args.username = "u" /\ call.args.password = None
    /\ call.res.err = "none" /\ call.res.c = call.in

\* C15: publish_platform issues the push exactly once; a push that fails
\* (the registry unreachable or rejecting the credentials) is not attempted
\* again, and the call ends with that error and returns no reference.
C15_PushOnceNoRetry ==
    DirectCall("publish_platform") =>
        /\ Len(call.res.pushes) = 1
        /\ (call.args.engine.push # "pushed" =>
              call.res.err = "publication" /\ call.res.ref = None)

C15_Witness ==
    /\ DirectCall("publish_platform") /\ call.args.engine.push = "rejected"
    /\ BothCredentials
    /\ call.res.err = "publication" /\ Len(call.res.pushes) = 1

\* C16: a build_platform invocation with a local source tree and a local
\* theme tree that returns (no unsuppressed command failing), whatever its
\* other arguments, returns a state whose mounts have the source tree at
\* /openedx/edx-platform and the theme tree at /openedx/themes/{d}, d the
\* deployment name, and whose active user is the non-root id collected is
\* configured with (its default, 1000: build_platform passes none).
C16_EndToEndLocalTrees ==
    pc = "returned" /\ args.source # None /\ args.theme_source # None =>
        /\ <<"/openedx/edx-platform", args.source>> \in container.mounts
        /\ <<"/openedx/themes/" \o args.deployment_name, args.theme_source>>
               \in container.mounts
        /\ container.user = "1000"
        /\ ~IsRoot(container.user)

C16_Witness ==
    /\ pc = "returned" /\ failing = {}
    /\ args.deployment_name = "mitx" /\ args.release_name = "sumac"
    /\ args.source = "A" /\ args.theme_source = "B" /\ args.include_locales
    /\ ImageOf(container) = "python:3.11-bookworm"
    /\ <<"/openedx/themes/mitx", "B">> \in container.mounts
    /\ trace = StageOrder

\* The stage functions that take a container.
ContainerStages ==
    { "locales", "get_code", "themes", "install_deps", "collected",
      "fetch_translations", "build_static_assets", "docker_image" }

\* A call given the container in, with outcome err and out, has left the
\* object the caller passed as it was and has returned a new object.
FrameOfCall(in, err, out) ==
    /\ \E h \in 1..Len(heap) : heap[h] = in /\ heap'[h] = in
    /\ IF err = "none"
       THEN /\ Len(heap') = Len(heap) + 1
            /\ heap'[Len(heap')] = out
            /\ out # in
       ELSE heap' = heap

RECURSIVE RunAlone(_)
RunAlone(run) ==
    IF run.pc \in {"returned", "raised_config", "raised_exec"} THEN run
    ELSE RunAlone(Advance(run))

ClaimedPythonVersion(release_name, python_version) ==
    IF python_version # None THEN python_version
    ELSE IF release_name = "master" THEN "3.12" ELSE "3.11"

\* C19: the base image of build_platform is python:{v}-bookworm and that of
\* build_codejail python:{v}-slim-trixie, where v is the python_version
\* supplied, whatever the release, and without one 3.12 for the release
\* "master" and 3.11 for every other release.
C19_PythonVersionDefault ==
    /\ (InTrace("apt_base") /\ container # DagContainer =>
          ImageOf(container) =
              "python:" \o ClaimedPythonVersion(args.release_name, args.python_version_given)
                        \o "-bookworm")
    /\ (DirectCall("build_codejail") =>
          ImageOf(call.res.c) =
              "python:" \o ClaimedPythonVersion(call.args.release_name, call.args.python_version)
                        \o "-slim-trixie")

C19_Witness ==
    /\ pc = "returned" /\ args.release_name = "master" /\ args.python_version_given = None
    /\ ImageOf(container) = "python:3.12-bookworm"

\* The user in effect when the step i of steps is applied.
UserAt(steps, i) ==
    LET us == {j \in 1..(i - 1) : steps[j].kind = "user"} IN
    IF us = {} THEN RootUser
    ELSE steps[CHOOSE j \in us : \A k \in us : k <= j].args[1]

\* The steps of collected that need root.
RootSteps(app_user_id) ==
    { WithExec(ChmodBin), WithExec(Useradd(app_user_id)), WithExec(ChownOpenedx(app_user_id)) }

Applies(steps, op) == \E i \in 1..Len(steps) : steps[i] = op

\* The first place of op in steps.
IndexOf(steps, op) ==
    CHOOSE i \in 1..Len(steps) : steps[i] = op /\ \A k \in 1..(i - 1) : steps[k] # op

\* The steps new a call of collected has applied: no step that needs root
\* comes after a switch of the user; and, the call having returned, the
\* user is created, then /openedx handed to it, then the user switched, the
\* chmod of /openedx/bin before the switch too, and no step after the switch
\* sets the user.
CollectedOrder(new, app_user_id, returned) ==
    /\ \A j, u \in 1..Len(new) :
          new[j] \in RootSteps(app_user_id) /\ new[u].kind = "user" => j < u
    /\ (returned =>
          /\ \A op \in RootSteps(app_user_id) \cup {WithUser(ToString(app_user_id))} :
                Applies(new, op)
          /\ LET a == IndexOf(new, WithExec(ChmodBin))
                 b == IndexOf(new, WithExec(Useradd(app_user_id)))
                 c == IndexOf(new, WithExec(ChownOpenedx(app_user_id)))
                 u == IndexOf(new, WithUser(ToString(app_user_id)))
             IN  /\ a < u /\ b < c /\ c < u
                 /\ \A j \in (u + 1)..Len(new) : new[j].kind # "user")

\* Every step of c after the switch to the user runs as that user: the
\* user is in effect right after the switch and no later step sets another.
AfterSwitchAs(c, user) ==
    \A u \in 1..Len(c.steps) :
        c.steps[u] = WithUser(user) =>
            /\ UserAt(c.steps, u + 1) = user
            /\ \A k \in (u + 1)..Len(c.steps) :
                  c.steps[k].kind = "user" => c.steps[k].args[1] = user

\* C20: a call of collected applies useradd, then chown -R of /openedx,
\* then the switch of the user, and the chmod of /openedx/bin before the
\* switch: no step of collected that needs root comes after the switch.  In
\* build_platform these steps run as root, and every step after the
\* switch, in collected and in the stages after it, runs as the user
\* switched to, which is not root.
C20_RootStepsBeforeSwitch ==
    /\ (last.stage = "collected" =>
          LET new == NewSteps(last.in, last.out) IN
          /\ CollectedOrder(new, DefaultAppUserId, last.err = "none")
          /\ \A j \in 1..Len(new) :
                new[j] \in RootSteps(DefaultAppUserId) =>
                    IsRoot(UserAt(last.out.steps, Len(last.in.steps) + j)))
    /\ (DirectCall("collected") /\ call.args.app_user_id # 0 =>
          /\ CollectedOrder(NewSteps(call.in, call.res.c), call.args.app_user_id,
                            call.res.err = "none")
          /\ AfterSwitchAs(call.res.c, ToString(call.args.app_user_id)))
    /\ AfterSwitchAs(container, ToString(DefaultAppUserId))
    /\ (last.stage \notin UtilityStages => AfterSwitchAs(last.out, ToString(DefaultAppUserId)))
    /\ (InTrace("collected") /\ last.err = "none" /\ pc # "collected"
          => ~IsRoot(container.user))

C20_Witness ==
    /\ pc = "returned"
    /\ \E u \in 1..Len(container.steps) :
          /\ container.steps[u] = WithUser("1000")
          /\ \E j \in 1..(u - 1) : container.steps[j] = WithExec(ChownOpenedx(1000))
          /\ \E k \in (u + 1)..Len(container.steps) :
                container.steps[k] = WithExec(<<"chown", "app:app", "/openedx/.ssh">>)

\* The value the variable has in the environment of c, None without one.
EnvOf(c, name) ==
    IF \E p \in c.env : p[1] = name
    THEN (CHOOSE p \in c.env : p[1] = name)[2]
    ELSE None

\* The value the last step of c that sets the variable gives it.
LastSet(c, name) ==
    LET is == {i \in 1..Len(c.steps) :
                  c.steps[i].kind = "env" /\ c.steps[i].args[1] = name} IN
    IF is = {} THEN None
    ELSE c.steps[CHOOSE i \in is : \A k \in is : k <= i].args[2]

\* C21: the environment is last-write-wins in the order of application: in
\* every state build_platform holds, a variable has one value, the one the
\* last step that sets it gives it.  In the state a build_platform run
\* returns, DJANGO_SETTINGS_MODULE is "invalid" (docker_image's value, set
\* after the two i18n values of fetch_translations) and PATH is the value
\* collected sets after the switch of the user, which starts with
\* /openedx/venv/bin and does not contain /usr/sbin.
C21_EnvLastWriteWins ==
    /\ \A p \in container.env :
          /\ p[2] = LastSet(container, p[1])
          /\ \A q \in container.env : q[1] = p[1] => q = p
    /\ (pc = "returned" =>
          /\ EnvOf(container, "DJANGO_SETTINGS_MODULE") = "invalid"
          /\ Applies(container.steps,
                     WithEnvVariable("DJANGO_SETTINGS_MODULE", "lms.envs.mitol.i18n"))
          /\ Applies(container.steps,
                     WithEnvVariable("DJANGO_SETTINGS_MODULE", "cms.envs.mitol.i18n"))
          /\ EnvOf(container, "PATH") =
                "/openedx/venv/bin:/openedx/bin:/openedx/edx-platform/node_modules/.bin:/openedx/nodeenv/bin:/usr/local/bin:/usr/bin:/bin"
          /\ StartsWith(EnvOf(container, "PATH"), "/openedx/venv/bin")
          /\ ~Contains(EnvOf(container, "PATH"), "/usr/sbin"))

C21_Witness ==
    /\ pc = "returned"
    /\ EnvOf(container, "DJANGO_SETTINGS_MODULE") = "invalid"
    /\ \E i \in 1..Len(container.steps) :
          /\ container.steps[i].kind = "env" /\ container.steps[i].args[1] = "PATH"
          /\ Contains(container.steps[i].args[2], "/usr/sbin")

PipUninstallLxml == <<"pip", "uninstall", "--yes", "lxml", "xmlsec">>

\* The steps without the step op.
Without(steps, op) ==
    LET keep == {i \in 1..Len(steps) : steps[i] # op}
        RECURSIVE Pick(_, _)
        Pick(i, acc) ==
            IF i > Len(steps) THEN acc
            ELSE Pick(i + 1, IF i \in keep THEN Append(acc, steps[i]) ELSE acc)
    IN Pick(1, <<>>)

\* An argument of the step names the deployment.
NamesDeployment(op, deployment_name) ==
    \E k \in 1..Len(op.args) : Contains(op.args[k], deployment_name)

\* The steps install_deps applies for a deployment other than mitxonline,
\* as kinds of operation.
InstallDepsKinds ==
    << "mounted_directory", "mounted_directory", "exec", "exec", "exec", "exec", "exec",
       "workdir", "env", "exec", "env", "exec", "exec" >>

\* C22: install_deps applies the uninstall of edx-name-affirmation exactly
\* when deployment_name is "mitxonline", as the step right after the base
\* 'uv pip install' and right before the uninstall of lxml and xmlsec;
\* with that step taken out the steps are the same for every deployment:
\* the same operations in the same order, of which only the two
\* requirements-file installs name the deployment.
C22_NameAffirmationOnlyMitxonline ==
    last.stage = "install_deps" /\ last.err = "none" =>
        LET new == NewSteps(last.in, last.out)
            d == args.deployment_name
            rest == Without(new, WithExec(UninstallNameAffirmation))
            base == IndexOf(new, WithExec(UvPipInstallBase(d, args.release_name)))
        IN
        /\ (Applies(new, WithExec(UninstallNameAffirmation)) <=> d = "mitxonline")
        /\ Applies(new, WithExec(UvPipInstallBase(d, args.release_name)))
        /\ (d = "mitxonline" =>
              /\ new[base + 1] = WithExec(UninstallNameAffirmation)
              /\ new[base + 2] = WithExec(PipUninstallLxml)
              /\ Len(new) = Len(rest) + 1)
        /\ (d # "mitxonline" => new[base + 1] = WithExec(PipUninstallLxml) /\ rest = new)
        /\ [i \in 1..Len(rest) |-> rest[i].kind] = InstallDepsKinds
        /\ {i \in 1..Len(rest) : NamesDeployment(rest[i], d)} = {5, 7}

C22_Witness ==
    /\ last.stage = "install_deps" /\ last.err = "none"
    /\ args.deployment_name = "mitxonline"
    /\ Applies(NewSteps(last.in, last.out), WithExec(UninstallNameAffirmation))

\* The names that equal "learning" when case is ignored, among MfeNames.
LearningSpellings == {"learning", "Learning", "LEARNING"}

\* The file build_mfe copies to the path, None when no step copies there.
FileAt(c, path) ==
    IF \E i \in 1..Len(c.steps) : c.steps[i].kind = "file" /\ c.steps[i].args[1] = path
    THEN (CHOOSE p \in c.mounts : p[1] = path)[2]
    ELSE None

ModuleSlotFile(name) == "file(directory(module:mfe_slot_config):" \o name \o ")"

\* C23: build_mfe treats the MFE as the learning MFE exactly when mfe_name
\* is "learning" in any case.  env.config.jsx is then the file
\* learning-mfe-config.env.jsx and otherwise
\* {deployment_name}/common-mfe-config.env.jsx; the copy of
\* common-mfe-config.env.jsx is applied only for the learning MFE, the two
\* AI-drawer files only for it with enable_ai_drawer, the smoot-design steps
\* only for it with enable_smoot_design; for any other MFE the steps are
\* those of the call with both flags off.
C23_LearningMfeOnly ==
    DirectCall("build_mfe") =>
        LET a == call.args
            c == call.res.c
            learning == a.mfe_name \in LearningSpellings
        IN
        /\ call.res.err = "none"
        /\ FileAt(c, "/app/mfe/env.config.jsx") =
              (IF learning THEN ModuleSlotFile("learning-mfe-config.env.jsx")
               ELSE ModuleSlotFile(a.deployment_name \o "/common-mfe-config.env.jsx"))
        /\ FileAt(c, "/app/mfe/common-mfe-config.env.jsx") =
              (IF learning
               THEN ModuleSlotFile(a.deployment_name \o "/common-mfe-config.env.jsx")
               ELSE None)
        /\ FileAt(c, "/app/mfe/AIDrawerManagerSidebar.jsx") =
              (IF learning /\ a.enable_ai_drawer
               THEN ModuleSlotFile("AIDrawerManagerSidebar.jsx") ELSE None)
        /\ FileAt(c, "/app/mfe/SidebarAIDrawerCoordinator.jsx") =
              (IF learning /\ a.enable_ai_drawer
               THEN ModuleSlotFile("SidebarAIDrawerCoordinator.jsx") ELSE None)
        /\ \A i \in 1..Len(SmootDesignSteps) :
              Applies(c.steps, SmootDesignSteps[i]) <=> (learning /\ a.enable_smoot_design)
        /\ (~learning =>
              c.steps = build_mfe(a.mfe_name, DefaultMfeRepo, DefaultMfeBranch,
                                  DefaultNodeVersion, a.deployment_name, None,
                                  FALSE, FALSE, a.styles_file).c.steps)

C23_Witness ==
    /\ DirectCall("build_mfe") /\ call.args.mfe_name = "Learning"
    /\ call.args.enable_ai_drawer /\ call.args.enable_smoot_design
    /\ FileAt(call.res.c, "/app/mfe/env.config.jsx")
          = ModuleSlotFile("learning-mfe-config.env.jsx")
    /\ Applies(call.res.c.steps, WithExec(<<"npm", "pack", "@mitodl/smoot-design@^6.12.0">>))

====
